---- MODULE Spec2Model ----
(***************************************************************************)
(* Authinator (teamcoltra/auther): the secret store kept in totp.json and  *)
(* the CLI commands and HTTP handlers of main.go that load, mutate and     *)
(* save it.  The data file is modelled at the level of its bytes, so that  *)
(* a truncated or overwritten file is a state a reader can meet.  The      *)
(* clock is a variable: a handler that calls time.Now() twice reads it in  *)
(* two steps, and a second may pass between them.                          *)
(***************************************************************************)
EXTENDS Integers, Sequences, FiniteSets, TLC

\* Bounds of the model.
MaxNameLen == 2
MaxSecretLen == 2
MaxOps == 2
MaxSeqOps == 4

\* Two concurrent requesters: each runs one CLI command or one HTTP request
\* at a time, and takes its next when that one has ended.
Procs == {1, 2}

\* Characters of names and secrets ("A" is in the base32 alphabet).
NameChars == {"a"}
SecretChars == {"A"}
Structural == {"{", "}", "(", ")", ":"}

SeqsUpTo(S, n) == UNION {[1..k -> S] : k \in 0..n}
Names == SeqsUpTo(NameChars, MaxNameLen)
Secrets == SeqsUpTo(SecretChars, MaxSecretLen)

\* type TOTPEntry struct { Name, Secret string }
TOTPEntry(name, secret) == [Name |-> name, Secret |-> secret]

----------------------------------------------------------------------------
\* json.MarshalIndent(data): the whole collection as one byte sequence,
\* "{" entry* "}" with entry = "(" name ":" secret ")".
RECURSIVE EncodeEntries(_)
EncodeEntries(entries) ==
    IF entries = <<>> THEN <<>>
    ELSE <<"(">> \o Head(entries).Name \o <<":">> \o Head(entries).Secret
         \o <<")">> \o EncodeEntries(Tail(entries))

Marshal(entries) == <<"{">> \o EncodeEntries(entries) \o <<"}">>

ParseFail == [ok |-> FALSE, entries |-> <<>>]
ParseOk(entries) == [ok |-> TRUE, entries |-> entries]

\* The first index >= from at which b holds c, 0 when there is none.
IndexOf(b, c, from) ==
    LET S == {i \in from..Len(b) : b[i] = c}
    IN IF S = {} THEN 0 ELSE CHOOSE i \in S : \A j \in S : i <= j

PlainText(s) == \A i \in 1..Len(s) : s[i] \notin Structural

\* The entries of b from position i on, up to the closing "}", which must be
\* the last byte: json.Unmarshal rejects data after the top-level value.
RECURSIVE DecodeEntries(_, _)
DecodeEntries(b, i) ==
    IF i > Len(b) THEN ParseFail
    ELSE IF b[i] = "}" THEN (IF i = Len(b) THEN ParseOk(<<>>) ELSE ParseFail)
    ELSE IF b[i] # "(" THEN ParseFail
    ELSE LET c == IndexOf(b, ":", i + 1)
             d == IndexOf(b, ")", i + 1)
         IN IF c = 0 \/ d = 0 \/ d < c THEN ParseFail
            ELSE LET nm == SubSeq(b, i + 1, c - 1)
                     sc == SubSeq(b, c + 1, d - 1)
                     rest == DecodeEntries(b, d + 1)
                 IN IF PlainText(nm) /\ PlainText(sc) /\ rest.ok
                    THEN ParseOk(<<TOTPEntry(nm, sc)>> \o rest.entries)
                    ELSE ParseFail

\* json.Unmarshal(content, &data): an empty or malformed content is an error.
Unmarshal(b) ==
    IF Len(b) = 0 \/ b[1] # "{" THEN ParseFail ELSE DecodeEntries(b, 2)

----------------------------------------------------------------------------
VARIABLES
    file,      \* totp.json: whether it exists, and its bytes
    serverUp,  \* the serve process is running
    todo,      \* commands and requests still to be issued
    pc,        \* each requester's position
    req,       \* each requester's command or request
    data,      \* each requester's local TOTPData.Entries
    out,       \* what the command printed / how the request ended
    status,    \* the HTTP status written to the response (0: none)
    now,       \* the clock: time.Now().Unix()
    shown      \* the codes a command printed or a response carries

vars == <<file, serverUp, todo, pc, req, data, out, status, now, shown>>

NoReq == [path |-> "none", op |-> "none", name |-> <<>>, secret |-> <<>>]

\* The state before any command: n commands to come, the storage file as
\* stored, the clock at t.
StartWith(n, stored, t) ==
    /\ file = stored
    /\ serverUp = TRUE
    /\ todo = n
    /\ pc = [p \in Procs |-> "idle"]
    /\ req = [p \in Procs |-> NoReq]
    /\ data = [p \in Procs |-> <<>>]
    /\ out = [p \in Procs |-> "none"]
    /\ status = [p \in Procs |-> 0]
    /\ now = t
    /\ shown = [p \in Procs |-> <<>>]

Start(n) == StartWith(n, [exists |-> FALSE, bytes |-> <<>>], 0)

Init == Start(MaxOps)


InFlight(p) == pc[p] \notin {"idle", "done"}

\* A load that takes a missing file for an unreadable one.
LoadResultAbsentFails ==
    IF ~file.exists THEN ParseFail ELSE Unmarshal(file.bytes)

\* loadData: no file is an empty collection; a file that does not parse is
\* fatal (log.Fatalf).
LoadResult ==
    IF ~file.exists THEN ParseOk(<<>>) ELSE Unmarshal(file.bytes)

\* A loop comparing the wrong field with the name.
HasNameWrongField(entries, name) ==
    \E i \in 1..Len(entries) : entries[i].Secret = name

\* createEntry's loop: some entry has this name.
HasName(entries, name) ==
    \E i \in 1..Len(entries) : entries[i].Name = name

\* removeEntry's loop: found, and newEntries, the entries whose name differs,
\* in their order.
RECURSIVE Filter(_, _)
Filter(entries, name) ==
    IF entries = <<>> THEN <<>>
    ELSE IF Head(entries).Name # name
         THEN <<Head(entries)>> \o Filter(Tail(entries), name)
         ELSE Filter(Tail(entries), name)

\* A loop that starts with found set.
RemoveLoopFoundSet(entries, name) ==
    [found |-> TRUE, newEntries |-> Filter(entries, name)]

\* A loop whose test is inverted: it keeps the matching entries.
RemoveLoopInverted(entries, name) ==
    [found |-> Len(Filter(entries, name)) < Len(entries),
     newEntries |-> SelectSeq(entries, LAMBDA e : e.Name = name)]

\* A loop that puts each kept entry in front of the ones kept before it.
RECURSIVE Reversed(_)
Reversed(q) == IF q = <<>> THEN <<>> ELSE Append(Reversed(Tail(q)), Head(q))

RemoveLoopPrepends(entries, name) ==
    [found |-> Len(Filter(entries, name)) < Len(entries),
     newEntries |-> Reversed(Filter(entries, name))]

RemoveLoop(entries, name) ==
    [found |-> Len(Filter(entries, name)) < Len(entries),
     newEntries |-> Filter(entries, name)]

\* getCode's loop: the index of the first entry with this name (0: none).
FindEntry(entries, name) ==
    LET S == {i \in 1..Len(entries) : entries[i].Name = name}
    IN IF S = {} THEN 0 ELSE CHOOSE i \in S : \A j \in S : i <= j

\* The base32 alphabet, A-Z and 2-7.
Base32Alphabet ==
    {"A", "B", "C", "D", "E", "F", "G", "H", "I", "J", "K", "L", "M", "N", "O",
     "P", "Q", "R", "S", "T", "U", "V", "W", "X", "Y", "Z", "2", "3", "4", "5",
     "6", "7"}

\* totp.GenerateCode succeeds when the secret decodes as base32 to at least
\* one byte.
Base32Decodable(secret) ==
    /\ \A i \in 1..Len(secret) : secret[i] \in Base32Alphabet
    /\ (Len(secret) * 5) \div 8 > 0

\* The time step of totp.GenerateCode, and main.go's own 30.
Period == 30

\* The HOTP value of a key and a counter, kept symbolic.
HOTP(key, counter) == [key |-> key, counter |-> counter]
NoCode == HOTP(<<>>, -1)

\* totp.GenerateCode(secret, t): the HOTP value for the counter t / 30.
GenerateCode(secret, t) == HOTP(secret, t \div Period)

\* The seconds elapsed in the period instead of those remaining.
SecondsRemainingElapsed(t) == t % Period

\* Nothing remaining at the start of a period.
SecondsRemainingZero(t) == (Period - (t % Period)) % Period

\* remaining := 30 - (t % 30)
SecondsRemaining(t) == Period - (t % Period)

\* The last second of the current period.
NextTimeShort(t, remaining) == t + remaining - 1

\* nextTime := currentTime.Add(time.Duration(remaining) * time.Second)
NextTime(t, remaining) == t + remaining

\* One printed or returned code.
Line(name, code, remaining, next) ==
    [name |-> name, code |-> code, remaining |-> remaining, next |-> next]

\* The last line with its remaining seconds filled in.
WithRemaining(lines, remaining) ==
    [lines EXCEPT ![Len(lines)].remaining = remaining]

\* os.WriteFile's write at offset 0 of a file opened earlier: the bytes
\* replace the file's head, and what another writer put beyond them stays.
WriteAt0(old, bytes) ==
    IF Len(old) > Len(bytes)
    THEN bytes \o SubSeq(old, Len(bytes) + 1, Len(old))
    ELSE bytes

----------------------------------------------------------------------------
\* How a request leaves its handler.
Finish(p, o, st) ==
    /\ pc' = [pc EXCEPT ![p] = "done"]
    /\ out' = [out EXCEPT ![p] = o]
    /\ status' = [status EXCEPT ![p] = st]

\* log.Fatalf: the process exits.  A CLI command is its own process; an HTTP
\* handler takes the server and every request in flight with it.
Fatal(p) ==
    LET exits(q) == q = p \/ (req[p].path = "http" /\ req[q].path = "http"
                                /\ InFlight(q))
    IN /\ pc' = [q \in Procs |-> IF exits(q) THEN "done" ELSE pc[q]]
       /\ out' = [q \in Procs |-> IF q = p THEN "fatal"
                                  ELSE IF exits(q) THEN "killed" ELSE out[q]]
       /\ data' = [q \in Procs |-> IF exits(q) THEN <<>> ELSE data[q]]
       /\ shown' = [q \in Procs |-> IF exits(q) THEN <<>> ELSE shown[q]]
       /\ serverUp' = (serverUp /\ req[p].path = "cli")

Begin(p, path, op, name, secret) ==
    /\ todo' = todo - 1
    /\ req' = [req EXCEPT ![p] =
                 [path |-> path, op |-> op, name |-> name, secret |-> secret]]
    /\ data' = [data EXCEPT ![p] = <<>>]
    /\ shown' = [shown EXCEPT ![p] = <<>>]

\* main's "serve" case, run again after the server process has exited.
startServer ==
    /\ ~serverUp
    /\ serverUp' = TRUE
    /\ UNCHANGED <<file, todo, pc, req, data, out, status, now, shown>>

\* main's dispatch of a CLI command, one of cmds on one of names; create
\* takes its arguments as given.
Command(p, cmds, names) ==
    /\ ~InFlight(p)
    /\ todo > 0
    /\ \E op \in cmds, name \in names, secret \in Secrets :
          /\ op # "create" => secret = <<>>
          /\ op = "list" => name = <<>>
          /\ Begin(p, "cli", op, name, secret)
    /\ pc' = [pc EXCEPT ![p] = "load"]
    /\ out' = [out EXCEPT ![p] = "none"]
    /\ status' = [status EXCEPT ![p] = 0]
    /\ UNCHANGED <<file, serverUp, now>>

main(p) == Command(p, {"create", "list", "code", "remove"}, Names)

\* strings.TrimSpace: the line without its leading and trailing blanks.
RECURSIVE TrimLeft(_)
TrimLeft(line) ==
    IF line # <<>> /\ Head(line) = " " THEN TrimLeft(Tail(line)) ELSE line

RECURSIVE TrimRight(_)
TrimRight(line) ==
    IF line # <<>> /\ line[Len(line)] = " "
    THEN TrimRight(SubSeq(line, 1, Len(line) - 1))
    ELSE line

TrimSpace(line) == TrimRight(TrimLeft(line))

\* The lines typed at a prompt: a name or secret, bare or with a blank before
\* and after it.
Typed(texts) ==
    {pad \o t \o pad : pad \in {<<>>, <<" ">>}, t \in texts}

\* createEntryInteractive: the name and the secret read from the prompt and
\* trimmed, then createEntry.
createEntryInteractive(p) ==
    /\ ~InFlight(p)
    /\ todo > 0
    /\ \E nameLine \in Typed(Names), secretLine \in Typed(Secrets) :
          Begin(p, "cli", "create", TrimSpace(nameLine), TrimSpace(secretLine))
    /\ pc' = [pc EXCEPT ![p] = "load"]
    /\ out' = [out EXCEPT ![p] = "none"]
    /\ status' = [status EXCEPT ![p] = 0]
    /\ UNCHANGED <<file, serverUp, now>>

\* handleTOTPRequests, handleTOTPRequestsByID: GET and DELETE go on to load.
Request(p, methods, names) ==
    /\ serverUp
    /\ ~InFlight(p)
    /\ todo > 0
    /\ \E op \in methods, name \in names :
          /\ op = "list" => name = <<>>
          /\ Begin(p, "http", op, name, <<>>)
    /\ pc' = [pc EXCEPT ![p] = "load"]
    /\ out' = [out EXCEPT ![p] = "none"]
    /\ status' = [status EXCEPT ![p] = 0]
    /\ UNCHANGED <<file, serverUp, now>>

handleTOTPRequests(p) == Request(p, {"list", "code", "remove"}, Names)

\* createEntryHTTP up to its call of createEntry: an empty name or secret is
\* answered 400.
createEntryHTTP(p) ==
    /\ serverUp
    /\ ~InFlight(p)
    /\ todo > 0
    /\ \E name \in Names, secret \in Secrets :
          /\ Begin(p, "http", "create", name, secret)
          /\ IF name = <<>> \/ secret = <<>>
             THEN Finish(p, "invalid", 400)
             ELSE /\ pc' = [pc EXCEPT ![p] = "load"]
                  /\ out' = [out EXCEPT ![p] = "none"]
                  /\ status' = [status EXCEPT ![p] = 0]
    /\ UNCHANGED <<file, serverUp, now>>

\* loadData meeting a file that does not parse.
loadDataFatal(p) ==
    /\ pc[p] = "load"
    /\ ~LoadResult.ok
    /\ Fatal(p)
    /\ UNCHANGED <<file, todo, req, status, now>>

\* createEntry: load, look for the name, append.  The save follows.
createEntry(p) ==
    /\ pc[p] = "load"
    /\ req[p].op = "create"
    /\ LoadResult.ok
    /\ IF HasName(LoadResult.entries, req[p].name)
       THEN /\ out' = [out EXCEPT ![p] = "exists"]
            /\ pc' = [pc EXCEPT ![p] =
                        IF req[p].path = "http" THEN "respond" ELSE "done"]
            /\ UNCHANGED data
       ELSE /\ data' = [data EXCEPT ![p] =
                          Append(LoadResult.entries,
                                 TOTPEntry(req[p].name, req[p].secret))]
            /\ pc' = [pc EXCEPT ![p] = "open"]
            /\ UNCHANGED out
    /\ UNCHANGED <<file, serverUp, todo, req, status, now, shown>>

\* removeEntry (CLI): load, filter, report when nothing matched.
removeEntry(p) ==
    /\ pc[p] = "load"
    /\ req[p].op = "remove"
    /\ req[p].path = "cli"
    /\ LoadResult.ok
    /\ LET r == RemoveLoop(LoadResult.entries, req[p].name)
       IN IF ~r.found
          THEN /\ Finish(p, "notfound", 0)
               /\ UNCHANGED data
          ELSE /\ data' = [data EXCEPT ![p] = r.newEntries]
               /\ pc' = [pc EXCEPT ![p] = "open"]
               /\ UNCHANGED <<out, status>>
    /\ UNCHANGED <<file, serverUp, todo, req, now, shown>>

\* removeEntryHTTP: the same, answering 404 when nothing matched.
removeEntryHTTP(p) ==
    /\ pc[p] = "load"
    /\ req[p].op = "remove"
    /\ req[p].path = "http"
    /\ LoadResult.ok
    /\ LET r == RemoveLoop(LoadResult.entries, req[p].name)
       IN IF ~r.found
          THEN /\ Finish(p, "notfound", 404)
               /\ UNCHANGED data
          ELSE /\ data' = [data EXCEPT ![p] = r.newEntries]
               /\ pc' = [pc EXCEPT ![p] = "open"]
               /\ UNCHANGED <<out, status>>
    /\ UNCHANGED <<file, serverUp, todo, req, now, shown>>

\* Where listEntries' loop goes once an entry is done with.
ListNext(p, rest) ==
    IF rest = <<>>
    THEN Finish(p, "listed", 0)
    ELSE /\ pc' = [pc EXCEPT ![p] = "listcode"]
         /\ UNCHANGED <<out, status>>

\* listEntries (CLI): load; nothing to list, or the header and the loop.
listEntries(p) ==
    /\ pc[p] = "load"
    /\ req[p].op = "list"
    /\ req[p].path = "cli"
    /\ LoadResult.ok
    /\ data' = [data EXCEPT ![p] = LoadResult.entries]
    /\ IF LoadResult.entries = <<>>
       THEN Finish(p, "empty", 0)
       ELSE /\ pc' = [pc EXCEPT ![p] = "listcode"]
            /\ UNCHANGED <<out, status>>
    /\ UNCHANGED <<file, serverUp, todo, req, now, shown>>

\* listEntries' loop, totp.GenerateCode(entry.Secret, time.Now()): an entry
\* whose secret does not decode is logged and skipped.
listEntriesCode(p) ==
    /\ pc[p] = "listcode"
    /\ LET entry == Head(data[p])
       IN IF Base32Decodable(entry.Secret)
          THEN /\ shown' = [shown EXCEPT ![p] =
                              Append(@, Line(entry.Name,
                                             GenerateCode(entry.Secret, now),
                                             0, NoCode))]
               /\ pc' = [pc EXCEPT ![p] = "listrem"]
               /\ UNCHANGED <<data, out, status>>
          ELSE /\ data' = [data EXCEPT ![p] = Tail(@)]
               /\ ListNext(p, Tail(data[p]))
               /\ UNCHANGED shown
    /\ UNCHANGED <<file, serverUp, todo, req, now>>

\* listEntries' loop, remaining := 30 - (time.Now().Unix() % 30), and the
\* line printed.
listEntriesRemaining(p) ==
    /\ pc[p] = "listrem"
    /\ shown' = [shown EXCEPT ![p] = WithRemaining(@, SecondsRemaining(now))]
    /\ data' = [data EXCEPT ![p] = Tail(@)]
    /\ ListNext(p, Tail(data[p]))
    /\ UNCHANGED <<file, serverUp, todo, req, now>>

\* listEntriesHTTP: the entries as loaded.
listEntriesHTTP(p) ==
    /\ pc[p] = "load"
    /\ req[p].op = "list"
    /\ req[p].path = "http"
    /\ LoadResult.ok
    /\ data' = [data EXCEPT ![p] = LoadResult.entries]
    /\ Finish(p, "listed", 200)
    /\ UNCHANGED <<file, serverUp, todo, req, now, shown>>

\* getCode (CLI): the entry found is kept in data; the code, the remaining
\* seconds and the next code come from one currentTime; an undecodable
\* secret is fatal to the command.
getCode(p) ==
    /\ pc[p] = "load"
    /\ req[p].op = "code"
    /\ req[p].path = "cli"
    /\ LoadResult.ok
    /\ LET i == FindEntry(LoadResult.entries, req[p].name)
           entry == LoadResult.entries[i]
           remaining == SecondsRemaining(now)
       IN IF i = 0
          THEN Finish(p, "notfound", 0) /\ UNCHANGED <<data, shown>>
          ELSE /\ data' = [data EXCEPT ![p] = <<entry>>]
               /\ IF Base32Decodable(entry.Secret)
                  THEN /\ Finish(p, "code", 0)
                       /\ shown' = [shown EXCEPT ![p] =
                             <<Line(entry.Name,
                                    GenerateCode(entry.Secret, now),
                                    remaining,
                                    GenerateCode(entry.Secret,
                                                 NextTime(now, remaining)))>>]
                  ELSE Finish(p, "fatal", 0) /\ UNCHANGED shown
    /\ UNCHANGED <<file, serverUp, todo, req, now>>

\* The status getCodeHTTP answers with.
GetCodeHTTPStatusSwapped(found, decodable) ==
    IF ~found THEN 404 ELSE IF decodable THEN 500 ELSE 200

GetCodeHTTPStatus(found, decodable) ==
    IF ~found THEN 404 ELSE IF decodable THEN 200 ELSE 500

\* getCodeHTTP up to totp.GenerateCode(entry.Secret, time.Now()): 404 when no
\* entry has the name, 500 when its secret does not decode.
getCodeHTTPFind(p) ==
    /\ pc[p] = "load"
    /\ req[p].op = "code"
    /\ req[p].path = "http"
    /\ LoadResult.ok
    /\ LET i == FindEntry(LoadResult.entries, req[p].name)
           entry == LoadResult.entries[i]
           st == GetCodeHTTPStatus(i # 0, i # 0 /\ Base32Decodable(entry.Secret))
       IN IF i = 0
          THEN Finish(p, "notfound", st) /\ UNCHANGED <<data, shown>>
          ELSE /\ data' = [data EXCEPT ![p] = <<entry>>]
               /\ IF st = 200
                  THEN /\ shown' = [shown EXCEPT ![p] =
                             <<Line(entry.Name,
                                    GenerateCode(entry.Secret, now),
                                    0, NoCode)>>]
                       /\ pc' = [pc EXCEPT ![p] = "remaining"]
                       /\ UNCHANGED <<out, status>>
                  ELSE Finish(p, "codeerror", st) /\ UNCHANGED shown
    /\ UNCHANGED <<serverUp, todo, req, now>>

\* A lookup that writes back what it loaded.
getCodeHTTPSaves(p) ==
    /\ getCodeHTTPFind(p)
    /\ file' = [exists |-> TRUE, bytes |-> Marshal(LoadResult.entries)]

getCodeHTTP(p) ==
    /\ getCodeHTTPFind(p)
    /\ UNCHANGED file

\* getCodeHTTP, remaining := 30 - (time.Now().Unix() % 30), and the response.
getCodeHTTPRemaining(p) ==
    /\ pc[p] = "remaining"
    /\ shown' = [shown EXCEPT ![p] = WithRemaining(@, SecondsRemaining(now))]
    /\ Finish(p, "code", 200)
    /\ UNCHANGED <<file, serverUp, todo, req, data, now>>

\* saveData, os.WriteFile's open with O_CREATE|O_TRUNC: the file is empty.
saveDataOpen(p) ==
    /\ pc[p] = "open"
    /\ file' = [exists |-> TRUE, bytes |-> <<>>]
    /\ pc' = [pc EXCEPT ![p] = "write"]
    /\ UNCHANGED <<serverUp, todo, req, data, out, status, now, shown>>

\* saveData, os.WriteFile's write, and the message printed after it.
saveDataWrite(p) ==
    /\ pc[p] = "write"
    /\ file' = [exists |-> TRUE,
                bytes |-> WriteAt0(file.bytes, Marshal(data[p]))]
    /\ out' = [out EXCEPT ![p] =
                 IF req[p].op = "create" THEN "created" ELSE "removed"]
    /\ pc' = [pc EXCEPT ![p] =
                IF req[p].path = "http" THEN "respond" ELSE "done"]
    /\ data' = [data EXCEPT ![p] = <<>>]
    /\ UNCHANGED <<serverUp, todo, req, status, now, shown>>

\* saveData, os.WriteFile's write failing (disk full, I/O error): fatal, and
\* the file stays as the open left it.
saveDataFail(p) ==
    /\ pc[p] = "write"
    /\ Fatal(p)
    /\ UNCHANGED <<file, todo, req, status, now>>

\* createEntryHTTP after createEntry returned, removeEntryHTTP after saveData
\* returned: the confirmation.
respondOK(p) ==
    /\ pc[p] = "respond"
    /\ pc' = [pc EXCEPT ![p] = "done"]
    /\ status' = [status EXCEPT ![p] = 200]
    /\ UNCHANGED <<file, serverUp, todo, req, data, out, now, shown>>

Step(p) ==
    \/ main(p)
    \/ createEntryInteractive(p)
    \/ handleTOTPRequests(p)
    \/ createEntryHTTP(p)
    \/ loadDataFatal(p)
    \/ createEntry(p)
    \/ removeEntry(p)
    \/ removeEntryHTTP(p)
    \/ listEntries(p)
    \/ listEntriesCode(p)
    \/ listEntriesRemaining(p)
    \/ listEntriesHTTP(p)
    \/ getCode(p)
    \/ getCodeHTTP(p)
    \/ getCodeHTTPRemaining(p)
    \/ saveDataOpen(p)
    \/ saveDataWrite(p)
    \/ saveDataFail(p)
    \/ respondOK(p)

\* Requests served concurrently, CLI commands run beside the server.
Next == startServer \/ \E p \in Procs : Step(p)

Spec == Init /\ [][Next]_vars

\* One command or request at a time, each run to its end before the next is
\* issued: a single requester.
First == CHOOSE p \in Procs : \A q \in Procs : p <= q

InitSeq == Start(MaxSeqOps)

NextSeq == startServer \/ Step(First)

SpecSeq == InitSeq /\ [][NextSeq]_vars

\* The commands that show codes, against a store that holds a good and a bad
\* secret, while the clock runs.
MaxTime == 60
MaxTimeOps == 1

Acme == <<"a", "c", "m", "e">>
AcmeSecret ==
    <<"J", "B", "S", "W", "Y", "3", "D", "P", "E", "H", "P", "K", "3", "P",
      "X", "P">>
TimeStore == <<TOTPEntry(Acme, AcmeSecret), TOTPEntry(<<"a">>, <<"A">>)>>
TimeNames == {<<>>, Acme, <<"a">>}

\* A second passes.
Tick ==
    /\ now < MaxTime
    /\ now' = now + 1
    /\ UNCHANGED <<file, serverUp, todo, pc, req, data, out, status, shown>>

InitTime ==
    \E t \in 0..MaxTime :
        StartWith(MaxTimeOps, [exists |-> TRUE, bytes |-> Marshal(TimeStore)], t)

StepTime(p) ==
    \/ Command(p, {"list", "code"}, TimeNames)
    \/ Request(p, {"list", "code"}, TimeNames)
    \/ listEntries(p)
    \/ listEntriesCode(p)
    \/ listEntriesRemaining(p)
    \/ listEntriesHTTP(p)
    \/ getCode(p)
    \/ getCodeHTTP(p)
    \/ getCodeHTTPRemaining(p)

NextClock == Tick \/ StepTime(First)

SpecTime == InitTime /\ [][NextClock]_vars

----------------------------------------------------------------------------
\* The durable store as a reader finds it.
NamesOf(entries) == {entries[i].Name : i \in 1..Len(entries)}
Holds(entries, e) == \E i \in 1..Len(entries) : entries[i] = e
Ended(p) == pc[p] = "done"
HttpCreate(p) == req[p].path = "http" /\ req[p].op = "create"
\* entries with its i-th entry deleted
DeleteAt(entries, i) ==
    SubSeq(entries, 1, i - 1) \o SubSeq(entries, i + 1, Len(entries))

\* C1: two simultaneous POST /totps with distinct names against an empty
\* store, the only requests issued, leave once both have been confirmed a
\* store that holds both names.
C1_BothAddsKept ==
    \A p, q \in Procs :
        ( /\ p # q
          /\ todo = MaxOps - 2
          /\ HttpCreate(p) /\ HttpCreate(q)
          /\ req[p].name # req[q].name
          /\ Ended(p) /\ status[p] = 200 /\ out[p] = "created"
          /\ Ended(q) /\ status[q] = 200 /\ out[q] = "created" )
        => /\ LoadResult.ok
           /\ {req[p].name, req[q].name} \subseteq NamesOf(LoadResult.entries)

\* C2: mutating operations are serialized: no two requests are between
\* their load and the end of their save at the same time.
C2_MutatingCyclesSerialized ==
    \A p, q \in Procs :
        p # q => ~(pc[p] \in {"open", "write"} /\ pc[q] \in {"open", "write"})

\* A load by p while another requester is between the open and the write of
\* its save.
C3_LoadDuringSave(p) ==
    ( /\ pc[p] = "load"
      /\ pc'[p] # "load"
      /\ out'[p] # "killed"
      /\ \E q \in Procs \ {p} : pc[q] = "write" )
    => out'[p] # "fatal"

\* C3: a load performed while another request's save is in progress never
\* meets a truncated or half-written file: it does not fail to parse.
C3_ReadersSeeCompleteFile == [][\A p \in Procs : C3_LoadDuringSave(p)]_vars

\* No two entries share a name.
C4_Unique(entries) ==
    \A i, j \in 1..Len(entries) : entries[i].Name = entries[j].Name => i = j

\* C4: whenever the data file holds a collection, no two of its entries
\* share a name, under every interleaving of commands and requests; nor do
\* two entries of a collection about to be saved.
C4_NamesUnique ==
    /\ LoadResult.ok => C4_Unique(LoadResult.entries)
    /\ \A p \in Procs : pc[p] \in {"open", "write"} => C4_Unique(data[p])

\* Two creates of one name raced, both saved, and the store holds the name
\* once.
C4_Witness ==
    \E p, q \in Procs :
        /\ p # q
        /\ req[p].op = "create" /\ req[q].op = "create"
        /\ req[p].name = req[q].name
        /\ out[p] = "created" /\ out[q] = "created"
        /\ LoadResult.ok
        /\ Len(LoadResult.entries) = 1

\* The step in which a create finds its name stored, and the steps until it
\* returns.
C5_Decides(p) ==
    ( /\ pc[p] = "load"
      /\ pc'[p] # "load"
      /\ out'[p] # "killed"
      /\ req[p].op = "create"
      /\ LoadResult.ok
      /\ req[p].name \in NamesOf(LoadResult.entries) )
    => /\ out'[p] = "exists"
       /\ pc'[p] \notin {"open", "write"}
       /\ file' = file

C5_Returning(p) ==
    (req[p].op = "create" /\ out[p] = "exists" /\ InFlight(p)) => file' = file

\* C5: a create whose name is already stored reports that the entry exists,
\* performs no save, and leaves the data file as it was until the call ends.
C5_DuplicateAddRejected ==
    [][\A p \in Procs : C5_Decides(p) /\ C5_Returning(p)]_vars

\* The second add named a stored entry with another secret, and the store
\* still holds the first secret.
C5_Witness ==
    \E p \in Procs :
        /\ req[p].op = "create"
        /\ out[p] = "exists"
        /\ Ended(p)
        /\ LoadResult.ok
        /\ \E i \in 1..Len(LoadResult.entries) :
              /\ LoadResult.entries[i].Name = req[p].name
              /\ LoadResult.entries[i].Secret # req[p].secret

\* C6: a POST /totps whose name is already stored is answered with a 4xx
\* status.
C6_DuplicatePostFails ==
    \A p \in Procs :
        (HttpCreate(p) /\ Ended(p) /\ out[p] = "exists")
        => status[p] \in 400..499

\* The step in which p reports success: the 200 response, or the message a
\* CLI command prints after its save.
C7_Reports(p) ==
    \/ /\ req[p].path = "http"
       /\ pc[p] = "respond"
       /\ out[p] \in {"created", "removed"}
       /\ status'[p] = 200
    \/ /\ req[p].path = "cli"
       /\ pc[p] = "write"
       /\ out'[p] \in {"created", "removed"}

C7_AtReport(p) ==
    C7_Reports(p) =>
        /\ LoadResult'.ok
        /\ req[p].op = "create" =>
              Holds(LoadResult'.entries, TOTPEntry(req[p].name, req[p].secret))
        /\ req[p].op = "remove" =>
              req[p].name \notin NamesOf(LoadResult'.entries)

\* C7: at the moment an add that saved its entry reports success the store
\* holds the added entry, and at the moment a remove reports success the
\* store does not hold the removed name, other requests running or not.
C7_PersistedBeforeSuccess == [][\A p \in Procs : C7_AtReport(p)]_vars

\* What the store holds after a mutation, and what a lookup returns.
C8_AfterMutation ==
    \A p \in Procs :
        /\ (out[p] = "created" /\ pc[p] \in {"respond", "done"})
           => /\ LoadResult.ok
              /\ \E i \in 1..Len(LoadResult.entries) :
                    /\ LoadResult.entries[i] =
                          TOTPEntry(req[p].name, req[p].secret)
                    /\ \A j \in 1..(i - 1) :
                          LoadResult.entries[j].Name # req[p].name
        /\ (out[p] = "removed" /\ pc[p] \in {"respond", "done"})
           => /\ LoadResult.ok
              /\ req[p].name \notin NamesOf(LoadResult.entries)

C8_Lookup(p) ==
    ( /\ pc[p] = "load"
      /\ pc'[p] # "load"
      /\ out'[p] # "killed"
      /\ req[p].op = "code"
      /\ LoadResult.ok )
    => IF req[p].name \in NamesOf(LoadResult.entries)
       THEN /\ \/ out'[p] \in {"code", "codeerror", "fatal"}
               \/ pc'[p] = "remaining"
            /\ status'[p] # 404
            /\ \E i \in 1..Len(LoadResult.entries) :
                  /\ data'[p] = <<LoadResult.entries[i]>>
                  /\ LoadResult.entries[i].Name = req[p].name
                  /\ \A j \in 1..(i - 1) :
                        LoadResult.entries[j].Name # req[p].name
       ELSE /\ out'[p] = "notfound"
            /\ req[p].path = "http" => status'[p] = 404

\* C8: once an add has created its entry, a lookup of the name finds an
\* entry with exactly that name and secret; once a remove has removed a name,
\* a lookup of it finds nothing.  A lookup returns the first stored entry with
\* the name, and not-found (404) when there is none.
C8_AddThenFind ==
    /\ []C8_AfterMutation
    /\ [][\A p \in Procs : C8_Lookup(p)]_vars

\* A lookup found the second entry of the store.
C8_Witness ==
    \E p \in Procs :
        /\ req[p].op = "code"
        /\ out[p] = "code"
        /\ LoadResult.ok
        /\ Len(LoadResult.entries) >= 2
        /\ data[p] = <<LoadResult.entries[2]>>

\* A remove left a store that is not empty.
C8_WitnessRemoved ==
    \E p \in Procs :
        /\ req[p].op = "remove"
        /\ out[p] = "removed"
        /\ Ended(p)
        /\ LoadResult.ok
        /\ Len(LoadResult.entries) >= 1

\* What a remove is about to save, and what its save leaves in the file.
C9_Filtered ==
    \A p \in Procs :
        (req[p].op = "remove" /\ pc[p] = "open")
        => /\ LoadResult.ok
           /\ \E i \in 1..Len(LoadResult.entries) :
                 /\ LoadResult.entries[i].Name = req[p].name
                 /\ data[p] = DeleteAt(LoadResult.entries, i)

C9_Saved(p) ==
    (req[p].op = "remove" /\ pc[p] = "write" /\ out'[p] = "removed")
    => /\ LoadResult'.ok
       /\ LoadResult'.entries = data[p]

\* C9: a remove of a stored name persists the entries it loaded with the
\* matching entry deleted: the others as they were, in their order.
C9_RemoveKeepsOthers ==
    /\ []C9_Filtered
    /\ [][\A p \in Procs : C9_Saved(p)]_vars

\* A remove took an entry out of a store of three and saved the other two.
C9_Witness ==
    \E p \in Procs :
        /\ req[p].op = "remove"
        /\ out[p] = "removed"
        /\ Ended(p)
        /\ LoadResult.ok
        /\ Len(LoadResult.entries) = 2
        /\ LoadResult.entries[1].Name = <<"a">>
        /\ LoadResult.entries[2].Name = <<>>
        /\ req[p].name = <<"a", "a">>

\* The step in which a remove finds its name absent.
C10_Absent(p) ==
    ( /\ pc[p] = "load"
      /\ pc'[p] # "load"
      /\ out'[p] # "killed"
      /\ req[p].op = "remove"
      /\ LoadResult.ok
      /\ req[p].name \notin NamesOf(LoadResult.entries) )
    => /\ out'[p] = "notfound"
       /\ pc'[p] = "done"
       /\ req[p].path = "http" => status'[p] = 404
       /\ file' = file

\* C10: a remove of a name that is not stored ends not-found (404 over HTTP)
\* without a save: the data file is as it was.
C10_RemoveAbsentNotFound == [][\A p \in Procs : C10_Absent(p)]_vars

\* A DELETE of a name that is not stored was answered 404 while the store
\* held other entries.
C10_Witness ==
    \E p \in Procs :
        /\ req[p].op = "remove"
        /\ req[p].path = "http"
        /\ status[p] = 404
        /\ LoadResult.ok
        /\ Len(LoadResult.entries) >= 1


\* C11: a save is atomic: a step of a save that does not complete it, the
\* opening of the file or a write that fails, leaves the store holding the
\* complete collection it held before.
C11_SaveKeepsPriorState ==
    [][\A p \in Procs :
          ( /\ pc[p] \in {"open", "write"}
            /\ pc'[p] = "write" \/ out'[p] = "fatal" )
          => LoadResult' = LoadResult]_vars

\* C12: no error of the core ends the process: an HTTP request that finds the
\* storage unreadable is answered with a failure and the server stays up.
C12_CorruptStorageFailsRequestOnly ==
    [][\A p \in Procs :
          ( /\ pc[p] = "load" /\ pc'[p] # "load" /\ out'[p] # "killed"
            /\ req[p].path = "http"
            /\ ~LoadResult.ok )
          => /\ serverUp'
             /\ status'[p] \in 500..599]_vars

\* C13: a create with an empty name or an empty secret is rejected on every
\* create path, so every entry in the store has a non-empty name and a
\* non-empty secret.
C13_StoredEntriesNonEmpty ==
    LoadResult.ok =>
        \A i \in 1..Len(LoadResult.entries) :
            /\ LoadResult.entries[i].Name # <<>>
            /\ LoadResult.entries[i].Secret # <<>>


\* What a CLI lookup of acme prints when it runs at second t.
AcmeShownAt(p, t) ==
    /\ pc[p] = "load" /\ pc'[p] = "done"
    /\ req[p].path = "cli" /\ req[p].op = "code" /\ req[p].name = Acme
    /\ now = t

\* C14: looking up acme, secret JBSWY3DPEHPK3PXP, at Unix time 59 shows the
\* HOTP value for counter 1 as current code, 29 seconds remaining, and the
\* HOTP value for counter 2 as next code.
C14_At59Remaining29 ==
    [][\A p \in Procs :
          AcmeShownAt(p, 59) =>
              shown'[p] = <<Line(Acme, HOTP(AcmeSecret, 1), 29,
                                 HOTP(AcmeSecret, 2))>>]_vars

\* C14, amended: at Unix time 59, the last second of the period of counter
\* 1, the lookup shows the HOTP value for counter 1, 1 second remaining, and
\* the HOTP value for counter 2 as next code.
C14_At59Remaining1 ==
    [][\A p \in Procs :
          AcmeShownAt(p, 59) =>
              shown'[p] = <<Line(Acme, HOTP(AcmeSecret, 1), 1,
                                 HOTP(AcmeSecret, 2))>>]_vars

C14_Witness ==
    /\ now = 59
    /\ req[First].path = "cli" /\ req[First].name = Acme
    /\ out[First] = "code"
    /\ shown[First] = <<Line(Acme, HOTP(AcmeSecret, 1), 1, HOTP(AcmeSecret, 2))>>

\* The step that reads the clock for the remaining seconds.
ReadsRemaining(p) ==
    \/ pc[p] = "load" /\ out'[p] = "code" /\ req[p].path = "cli"
    \/ pc[p] = "remaining" /\ pc'[p] = "done" /\ out'[p] = "code"
    \/ pc[p] = "listrem" /\ pc'[p] # "listrem"

\* C15: the remaining seconds computed at second t are 30 - (t mod 30), a
\* value in 1..30 that is 30 when t is a multiple of 30; the current code
\* computed at t is the one for counter t / 30.
C15_RemainingInPeriod ==
    [][\A p \in Procs :
          /\ ReadsRemaining(p) =>
                LET r == shown'[p][Len(shown'[p])].remaining
                IN /\ r = 30 - (now % 30)
                   /\ r \in 1..30
                   /\ (now % 30 = 0) => r = 30
          /\ (pc[p] \in {"load", "listcode"} /\ Len(shown'[p]) > Len(shown[p])) =>
                shown'[p][Len(shown'[p])].code.counter = now \div 30]_vars

C15_Witness ==
    /\ now = 30
    /\ out[First] = "code"
    /\ shown[First][1].remaining = 30
    /\ shown[First][1].code = HOTP(AcmeSecret, 1)

\* C16: the next code a lookup at second t shows is the current code of
\* second t + remaining, the one for counter t / 30 + 1.
C16_NextIsFollowingCounter ==
    [][\A p \in Procs :
          (pc[p] = "load" /\ out'[p] = "code" /\ req[p].path = "cli") =>
              LET l == shown'[p][1]
              IN /\ l.next = HOTP(l.code.key, (now + l.remaining) \div 30)
                 /\ l.next.counter = (now \div 30) + 1
                 /\ l.next.counter = l.code.counter + 1]_vars

C16_Witness ==
    /\ now = 45
    /\ req[First].path = "cli" /\ out[First] = "code"
    /\ shown[First][1].remaining = 15
    /\ shown[First][1].code.counter = 1
    /\ shown[First][1].next = HOTP(AcmeSecret, 2)


\* The entry a create command or request asks for.
Asked(p) == TOTPEntry(req[p].name, req[p].secret)

\* p's own step out of its load.
LeavesLoad(p) == pc[p] = "load" /\ pc'[p] # "load" /\ out'[p] # "killed"

\* A created entry whose secret does not decode is in the store.
C17_Stored ==
    \A p \in Procs :
        ( /\ out[p] = "created"
          /\ ~Base32Decodable(req[p].secret) )
        => /\ LoadResult.ok
           /\ Holds(LoadResult.entries, Asked(p))

C17_Handled(p) ==
    /\ ( /\ LeavesLoad(p) /\ req[p].op = "create"
         /\ ~Base32Decodable(req[p].secret)
         /\ out'[p] # "fatal" )
       => \/ /\ pc'[p] = "open"
             /\ data'[p][Len(data'[p])] = Asked(p)
          \/ /\ out'[p] = "exists"
             /\ req[p].name \in NamesOf(LoadResult.entries)
    /\ ( /\ LeavesLoad(p) /\ req[p].op = "code" /\ req[p].path = "http"
         /\ out'[p] # "fatal"
         /\ LET stored == LoadResult.entries
            IN \E i \in 1..Len(stored) :
                  /\ stored[i].Name = req[p].name
                  /\ \A j \in 1..(i - 1) : stored[j].Name # req[p].name
                  /\ ~Base32Decodable(stored[i].Secret) )
       => /\ status'[p] = 500
          /\ shown'[p] = <<>>
          /\ file' = file

\* C17: create does not validate the secret: a create with a secret that does
\* not decode goes on to save the entry, unless the name is taken, and once
\* created the entry is in the store; GET /totps/{name} for such an entry
\* answers 500 and leaves the store as it is.
C17_UndecodableSecretStored ==
    /\ []C17_Stored
    /\ [][\A p \in Procs : C17_Handled(p)]_vars

C17_Witness ==
    /\ req[First].path = "http" /\ req[First].op = "code"
    /\ status[First] = 500
    /\ LoadResult.ok
    /\ \E i \in 1..Len(LoadResult.entries) :
          /\ LoadResult.entries[i].Name = req[First].name
          /\ ~Base32Decodable(LoadResult.entries[i].Secret)

\* C18: with no storage file, load gives the empty collection and no error:
\* list shows nothing and succeeds, a lookup finds nothing, neither creates
\* the file, and a create goes on to save a collection of exactly the entry
\* asked for, after which the file exists and holds exactly that entry.
C18_AbsentStorageIsEmpty ==
    [][\A p \in Procs :
          /\ (LeavesLoad(p) /\ ~file.exists) =>
                /\ req[p].op = "list" =>
                      /\ out'[p] \in {"empty", "listed"}
                      /\ status'[p] \in {0, 200}
                      /\ data'[p] = <<>> /\ shown'[p] = <<>>
                      /\ file' = file
                /\ req[p].op = "code" =>
                      /\ out'[p] = "notfound"
                      /\ status'[p] \in {0, 404}
                      /\ file' = file
                /\ req[p].op = "create" =>
                      /\ pc'[p] = "open"
                      /\ data'[p] = <<Asked(p)>>
          /\ (pc[p] = "open" /\ pc'[p] = "write") => data'[p] = data[p]
          /\ (pc[p] = "write" /\ out'[p] = "created" /\ data[p] = <<Asked(p)>>) =>
                /\ file'.exists
                /\ LoadResult'.ok
                /\ LoadResult'.entries = <<Asked(p)>>]_vars

C18_Witness ==
    /\ todo = MaxSeqOps - 1
    /\ req[First].op = "create" /\ out[First] = "created"
    /\ file.exists
    /\ LoadResult.ok
    /\ LoadResult.entries = <<Asked(First)>>

\* C19: a response that carries a code and its remaining seconds takes both
\* from one instant: when GET /totps/{name} or a line of the CLI list reads
\* the remaining seconds, the code it pairs them with is the code of that
\* second's window.
C19_CodeOfReportedWindow ==
    [][\A p \in Procs :
          ( \/ pc[p] = "remaining" /\ out'[p] = "code"
            \/ pc[p] = "listrem" /\ pc'[p] # "listrem" )
          => shown'[p][Len(shown'[p])].code.counter = now \div Period]_vars

\* C20: list and code lookup, CLI and HTTP, never write the storage file: no
\* step of such a command or request changes it.
C20_ReadsLeaveStore ==
    [][\A p \in Procs :
          ( /\ req'[p].op \in {"list", "code"}
            /\ pc'[p] # pc[p] \/ data'[p] # data[p] \/ shown'[p] # shown[p] )
          => file' = file]_vars

C20_Witness ==
    \E p \in Procs :
        /\ req[p].op = "list" /\ req[p].path = "cli"
        /\ out[p] = "listed"
        /\ shown[p] # <<>>
        /\ LoadResult.ok
        /\ NamesOf(LoadResult.entries) = {shown[p][1].name}

====
